---- MODULE Spec2Model ----
(***************************************************************************)
(* Model of mat73 (src/src/lib.rs): reading Matlab 7.3 arrays and struct   *)
(* field names out of an HDF5 store, the conversions of a MatVar into a    *)
(* Vec and into a nalgebra matrix, and the rendering of Error values.      *)
(*                                                                         *)
(* Strings that the code builds or takes apart (field names, dataset       *)
(* names, rendered messages) are sequences of pieces; Rust indices are     *)
(* zero based and are shifted by one when a TLA+ sequence is indexed.      *)
(***************************************************************************)
EXTENDS Integers, Sequences, FiniteSets, TLC

VARIABLES store, file, ret, out, memo

vars == <<store, file, ret, out, memo>>

----------------------------------------------------------------------------
(* Bounds of the model *)

MaxRank == 3
MaxDim == 2
MaxFields == 2
MaxCells == 3
MaxOtherFields == 1
MaxOtherCells == 1

----------------------------------------------------------------------------
(* Small helpers *)

RECURSIVE Product(_)
Product(s) == IF s = <<>> THEN 1 ELSE Head(s) * Product(Tail(s))

RECURSIVE Sum(_)
Sum(s) == IF s = <<>> THEN 0 ELSE Head(s) + Sum(Tail(s))

RECURSIVE Concat(_)
Concat(ss) == IF ss = <<>> THEN <<>> ELSE Head(ss) \o Concat(Tail(ss))

SeqsUpTo(S, n) == UNION {[1..k -> S] : k \in 0..n}

Ramp(n) == [k \in 1..n |-> k]

Ok(v) == [ok |-> TRUE, val |-> v]
Err(e) == [ok |-> FALSE, err |-> e]

----------------------------------------------------------------------------
(* pub enum Error *)

ErrHDF5(e) == [kind |-> "HDF5", e |-> e]
ErrDataset(name) == [kind |-> "Dataset", name |-> name]
ErrGroup(name) == [kind |-> "Group", name |-> name]
ErrStruct == [kind |-> "Struct"]

(* impl From<hdf5::Error> for Error *)
From(error) == ErrHDF5(error)

----------------------------------------------------------------------------
(* The backing store: what the hdf5 crate delivers for one open file.      *)

GoodPath == "examples/arrays.mat"
BadPath == "examples/missing.mat"
Paths == {GoodPath, BadPath}

NUL == "NUL"
Chars == {"a", "A"}
Cells == Chars \cup {NUL}

(* errors raised by the store itself, and the one the class check builds *)
StoreError(msg) == [msg |-> msg, origin |-> "store"]
InternalError(msg) == [msg |-> msg, origin |-> "internal"]

Absent == [st |-> "absent"]
Unreadable == [st |-> "bad"]
Present(v) == [st |-> "ok", val |-> v]

ClassNames == {"struct", "double", "Struct"}
ClassAttrs == {Absent, Unreadable} \cup {Present(c) : c \in ClassNames}
(* the values of a MATLAB_fields attribute with at most n elements and at *)
(* most c cells in all: a run of cells cut into elements of lengths lens  *)
FieldValues(n, c) ==
    {[k \in 1..Len(lens) |->
         SubSeq(flat, Sum(SubSeq(lens, 1, k - 1)) + 1, Sum(SubSeq(lens, 1, k)))] :
       <<flat, lens>> \in {p \in SeqsUpTo(Cells, c) \X SeqsUpTo(0..c, n) :
                              Sum(p[2]) = Len(p[1])}}
FieldAttrsUpTo(n, c) == {Absent, Unreadable} \cup {Present(v) : v \in FieldValues(n, c)}
FieldAttrs == FieldAttrsUpTo(MaxFields, MaxCells)

Shapes == SeqsUpTo(0..MaxDim, MaxRank)

NoObject == [kind |-> "none"]
Dataset(shape, data, readable) ==
    [kind |-> "dataset", shape |-> shape, data |-> data, readable |-> readable]
Group(class, fields) == [kind |-> "group", class |-> class, fields |-> fields]

(* the 2-D dataset `w` of examples/arrays.mat, as the test expects it *)
FixtureW == Dataset(<<2, 3>>, <<0, -6, -2, 1, 56, 1>>, TRUE)

Datasets == {Dataset(s, Ramp(Product(s)), b) : s \in Shapes, b \in BOOLEAN}
(* groups of class "struct" carry up to MaxFields fields of MaxCells cells *)
(* in all, the other groups up to MaxOtherFields fields of MaxOtherCells   *)
Groups ==
    {Group(Present("struct"), f) : f \in FieldAttrs}
        \cup {Group(c, f) : c \in ClassAttrs \ {Present("struct")},
                            f \in FieldAttrsUpTo(MaxOtherFields, MaxOtherCells)}
Objects == {NoObject} \cup Datasets \cup Groups

Names == {"w", "x"}

Stores == {[n \in Names |-> IF n = "w" THEN FixtureW ELSE o] : o \in Objects}

Lookup(h, name) == h[name]

(* hdf5::File::open *)
h5_open(path) ==
    IF path = GoodPath THEN Ok(path) ELSE Err(StoreError("unable to open file"))

(* Group::dataset(name) *)
h5_dataset(h, name) ==
    IF Lookup(h, name).kind = "dataset" THEN Ok(Lookup(h, name))
    ELSE Err(StoreError("unable to open dataset"))

(* Group::group(name) *)
h5_group(h, name) ==
    IF Lookup(h, name).kind = "group" THEN Ok(Lookup(h, name))
    ELSE Err(StoreError("unable to open group"))

(* Dataset::name(): the canonical path of the object *)
dataset_name(name) == <<"/", name>>

(* Dataset::read_raw::<T>() *)
read_raw(d) ==
    IF d.readable THEN Ok(d.data) ELSE Err(StoreError("unable to read dataset"))

(* Location::attr(attr_name): a handle on the attribute, or the store's error *)
attr(g, attr_name) ==
    IF attr_name = "MATLAB_class"
    THEN IF g.class.st = "absent"
         THEN Err(StoreError("unable to open attribute MATLAB_class"))
         ELSE Ok([attr_name |-> attr_name, content |-> g.class])
    ELSE IF g.fields.st = "absent"
         THEN Err(StoreError("unable to open attribute MATLAB_fields"))
         ELSE Ok([attr_name |-> attr_name, content |-> g.fields])

(* Attribute::read_scalar / Attribute::read_raw on an attribute handle *)
attr_read(a) ==
    IF a.content.st = "ok" THEN Ok(a.content.val)
    ELSE IF a.attr_name = "MATLAB_class"
    THEN Err(StoreError("unable to read attribute MATLAB_class"))
    ELSE Err(StoreError("unable to read attribute MATLAB_fields"))

(* as_str that keeps the NUL byte *)
as_str_with_nul(x) == <<x>>

(* FixedAscii<1>::as_str: the bytes before the first NUL *)
as_str(x) == IF x = NUL THEN <<>> ELSE <<x>>

----------------------------------------------------------------------------
(* File::array and File::structure *)

MatVar(name, shape, data) == [name |-> name, shape |-> shape, data |-> data]
MatStruct(field_names) == [field_names |-> field_names]

(* array with the lookup error passed on by `?` instead of being replaced *)
array_lookup_propagated(h, name) ==
    LET dataset == h5_dataset(h, name)
    IN  IF ~dataset.ok THEN Err(From(dataset.err))
        ELSE LET data == read_raw(dataset.val)
             IN  IF ~data.ok THEN Err(From(data.err))
                 ELSE Ok(MatVar(dataset_name(name), dataset.val.shape, data.val))

(* array with the leading dimension left out of the shape *)
array_shape_truncated(h, name) ==
    LET dataset == h5_dataset(h, name)
    IN  IF ~dataset.ok THEN Err(ErrDataset(name))
        ELSE LET data == read_raw(dataset.val)
             IN  IF ~data.ok THEN Err(From(data.err))
                 ELSE Ok(MatVar(dataset_name(name),
                                IF dataset.val.shape = <<>> THEN <<>>
                                ELSE Tail(dataset.val.shape),
                                data.val))

array(h, name) ==
    LET dataset == h5_dataset(h, name)
    IN  IF ~dataset.ok THEN Err(ErrDataset(name))
        ELSE LET data == read_raw(dataset.val)
             IN  IF ~data.ok THEN Err(From(data.err))
                 ELSE Ok(MatVar(dataset_name(name), dataset.val.shape, data.val))

(* the closure given to and_then after read_scalar::<FixedAscii<256>>() *)
class_check(r) ==
    IF ~r.ok THEN r
    ELSE IF r.val = "struct" THEN Ok(<<>>)
    ELSE Err(InternalError("Matlab class is not a struct"))

(* collect_field_names with the names pushed to the front of the result *)
collect_field_names_reversed(data) ==
    [k \in 1..Len(data) |->
        Concat([i \in 1..Len(data[Len(data) + 1 - k]) |->
                   as_str(data[Len(data) + 1 - k][i])])]

(* the closure given to map after read_raw(): one String per element *)
collect_field_names(data) ==
    [k \in 1..Len(data) |-> Concat([i \in 1..Len(data[k]) |-> as_str(data[k][i])])]

(* structure reading MATLAB_fields before MATLAB_class is checked, and    *)
(* reporting a missing MATLAB_class as Error::Struct                      *)
structure_fields_first(h, name) ==
    LET group == h5_group(h, name)
    IN  IF ~group.ok
        THEN [res |-> Err(ErrGroup(name)), trace |-> <<"group">>]
        ELSE
    LET fields == attr(group.val, "MATLAB_fields")
        t1 == <<"group", "attr MATLAB_fields">>
    IN  IF ~fields.ok
        THEN [res |-> Err(From(fields.err)), trace |-> t1]
        ELSE
    LET field_names == attr_read(fields.val)
        t2 == Append(t1, "read_raw")
    IN  IF ~field_names.ok
        THEN [res |-> Err(From(field_names.err)), trace |-> t2]
        ELSE
    LET class == attr(group.val, "MATLAB_class")
        t3 == Append(t2, "attr MATLAB_class")
    IN  IF ~class.ok
        THEN [res |-> Err(ErrStruct), trace |-> t3]
        ELSE
    LET checked == class_check(attr_read(class.val))
        t4 == Append(t3, "read_scalar")
    IN  IF ~checked.ok
        THEN [res |-> Err(From(checked.err)), trace |-> t4]
        ELSE [res |-> Ok(MatStruct(collect_field_names(field_names.val))), trace |-> t4]

(* res is the value returned, trace the store calls made on the way *)
structure(h, name) ==
    LET group == h5_group(h, name)
    IN  IF ~group.ok
        THEN [res |-> Err(ErrGroup(name)), trace |-> <<"group">>]
        ELSE
    LET class == attr(group.val, "MATLAB_class")
        t1 == <<"group", "attr MATLAB_class">>
    IN  IF ~class.ok
        THEN [res |-> Err(From(class.err)), trace |-> t1]
        ELSE
    LET checked == class_check(attr_read(class.val))
        t2 == Append(t1, "read_scalar")
    IN  IF ~checked.ok
        THEN [res |-> Err(From(checked.err)), trace |-> t2]
        ELSE
    LET fields == attr(group.val, "MATLAB_fields")
        t3 == Append(t2, "attr MATLAB_fields")
    IN  IF ~fields.ok
        THEN [res |-> Err(From(fields.err)), trace |-> t3]
        ELSE
    LET field_names == attr_read(fields.val)
        t4 == Append(t3, "read_raw")
    IN  IF ~field_names.ok
        THEN [res |-> Err(From(field_names.err)), trace |-> t4]
        ELSE [res |-> Ok(MatStruct(collect_field_names(field_names.val))), trace |-> t4]

----------------------------------------------------------------------------
(* Conversions of a MatVar *)

Panic(why) == [panic |-> TRUE, why |-> why]
Done(v) == [panic |-> FALSE, val |-> v]

(* raw handing the buffer back in reverse *)
RECURSIVE Reverse(_)
Reverse(s) == IF s = <<>> THEN <<>> ELSE Append(Reverse(Tail(s)), Head(s))
raw_reversed(var) == Reverse(var.data)

(* MatVar::raw() *)
raw(var) == var.data

(* impl From<MatVar<T>> for Vec<T> *)
into_vec(var) == raw(var)

(* nalgebra::DMatrix::from_column_slice(nrows, ncols, slice) *)
from_column_slice(nrows, ncols, slice) ==
    IF Len(slice) # nrows * ncols
    THEN Panic("slice length does not match the dimensions")
    ELSE Done([nrows |-> nrows, ncols |-> ncols,
               at |-> [i \in 0..(nrows - 1), j \in 0..(ncols - 1) |->
                          slice[j * nrows + i + 1]]])

(* into_matrix taking shape[0] as the row count and shape[1] as the column count *)
into_matrix_swapped(var) ==
    IF Len(var.shape) > 2
    THEN Panic("not implemented: Matlab array dimension cannot be greater than 2")
    ELSE IF Len(var.shape) < 2
    THEN Panic("index out of bounds")
    ELSE from_column_slice(var.shape[1], var.shape[2], raw(var))

(* impl From<MatVar<T>> for nalgebra::Matrix; shape[k] is var.shape[k + 1] *)
into_matrix(var) ==
    IF Len(var.shape) > 2
    THEN Panic("not implemented: Matlab array dimension cannot be greater than 2")
    ELSE IF Len(var.shape) < 2
    THEN Panic("index out of bounds")
    ELSE from_column_slice(var.shape[2], var.shape[1], raw(var))

----------------------------------------------------------------------------
(* Rendering of Error *)

(* what hdf5::Error::source() may return for the wrapped error *)
Sources == {<<>>, <<"cause">>}

(* impl std::error::Error for Error: source(); esrc is e.source() *)
source(self, esrc) == IF self.kind = "HDF5" THEN esrc ELSE <<>>

(* impl Display for Error: fmt() *)
display(self, esrc) ==
    IF self.kind = "HDF5"
    THEN IF source(self, esrc) = <<>>
         THEN Panic("called Option::unwrap() on a None value")
         ELSE Done(<<"Importing Matlab variables failed (", self.e.msg,
                     "), caused by ", source(self, esrc)[1]>>)
    ELSE IF self.kind = "Dataset"
    THEN Done(<<"Loading ", self.name, " dataset failed">>)
    ELSE IF self.kind = "Group"
    THEN Done(<<"Loading ", self.name, " group failed">>)
    ELSE Done(<<"Matlab class is not a struct">>)

(* impl Debug for Error: fmt() *)
debug(self, esrc) == display(self, esrc)

----------------------------------------------------------------------------
(* The state machine: a caller holding one File handle, the result of its  *)
(* last call (ret), the result of the last conversion or rendering (out),  *)
(* and one earlier call result it kept (memo).                             *)

NoCall == [op |-> "none"]
Call(op, arg, res, trace) == [op |-> op, arg |-> arg, res |-> res, trace |-> trace]

Init ==
    /\ store \in Stores
    /\ file = <<>>
    /\ ret = NoCall
    /\ out = NoCall
    /\ memo = <<>>

(* File::new(path) *)
New(path) ==
    LET h5 == h5_open(path)
    IN  /\ file' = IF h5.ok THEN <<h5.val>> ELSE file
        /\ ret' = Call("new", path, IF h5.ok THEN Ok(h5.val) ELSE Err(From(h5.err)),
                        <<"open">>)
        /\ out' = NoCall
        /\ UNCHANGED <<store, memo>>

(* the caller either keeps the result of this call for later comparison or *)
(* notes whether this call differs from the one whose result it kept       *)
Keep(call) ==
    {<<[call |-> call, between |-> FALSE]>>}
        \cup IF memo = <<>> THEN {memo}
             ELSE {<<[memo[1] EXCEPT !.between =
                         @ \/ call.op # memo[1].call.op \/ call.arg # memo[1].call.arg]>>}

(* Array leaving the dataset it has read unreadable for the next call *)
ArrayConsuming(name) ==
    /\ file # <<>>
    /\ ret' = Call("array", name, array(store, name), <<"dataset">>)
    /\ out' = NoCall
    /\ memo' \in Keep(ret')
    /\ store' = IF store[name].kind = "dataset"
                THEN [store EXCEPT ![name].readable = FALSE]
                ELSE store
    /\ UNCHANGED file

(* file.array(name) *)
Array(name) ==
    /\ file # <<>>
    /\ ret' = Call("array", name, array(store, name), <<"dataset">>)
    /\ out' = NoCall
    /\ memo' \in Keep(ret')
    /\ UNCHANGED <<store, file>>

(* file.structure(name) *)
Structure(name) ==
    /\ file # <<>>
    /\ ret' = Call("structure", name, structure(store, name).res,
                    structure(store, name).trace)
    /\ out' = NoCall
    /\ memo' \in Keep(ret')
    /\ UNCHANGED <<store, file>>

HoldsVar == ret.op = "array" /\ ret.res.ok
HoldsErr == ret.op # "none" /\ ~ret.res.ok

(* var.raw(): consumes the MatVar *)
Raw ==
    /\ HoldsVar
    /\ out' = [op |-> "raw", call |-> ret, result |-> Done(raw(ret.res.val))]
    /\ ret' = NoCall
    /\ UNCHANGED <<store, file, memo>>

(* Vec::from(var) *)
IntoVec ==
    /\ HoldsVar
    /\ out' = [op |-> "vec", call |-> ret, result |-> Done(into_vec(ret.res.val))]
    /\ ret' = NoCall
    /\ UNCHANGED <<store, file, memo>>

(* DMatrix::from(var) *)
IntoMatrix ==
    /\ HoldsVar
    /\ out' = [op |-> "matrix", call |-> ret, result |-> into_matrix(ret.res.val)]
    /\ ret' = NoCall
    /\ UNCHANGED <<store, file, memo>>

(* format!("{}", err) *)
Display ==
    /\ HoldsErr
    /\ \E esrc \in Sources :
          out' = [op |-> "display", call |-> ret, esrc |-> esrc,
                  result |-> display(ret.res.err, esrc)]
    /\ UNCHANGED <<store, file, ret, memo>>

(* format!("{:?}", err) *)
Debug ==
    /\ HoldsErr
    /\ \E esrc \in Sources :
          out' = [op |-> "debug", call |-> ret, esrc |-> esrc,
                  result |-> debug(ret.res.err, esrc)]
    /\ UNCHANGED <<store, file, ret, memo>>

Next ==
    \/ \E path \in Paths : New(path)
    \/ \E name \in Names : Array(name)
    \/ \E name \in Names : Structure(name)
    \/ Raw
    \/ IntoVec
    \/ IntoMatrix
    \/ Display
    \/ Debug

Spec == Init /\ [][Next]_vars

----------------------------------------------------------------------------
(* Properties *)

IsLookup(c) == c.op \in {"array", "structure"}
Failed(c, kind) == ~c.res.ok /\ c.res.err.kind = kind

(* C1: a File::array call whose name resolves to no dataset fails with     *)
(* Error::Dataset carrying exactly the requested name, a File::structure   *)
(* call whose name resolves to no group fails with Error::Group carrying   *)
(* exactly the requested name; the store's lookup error is never returned. *)
MissingNameClassified ==
    /\ (ret.op = "array" /\ store[ret.arg].kind # "dataset")
          => Failed(ret, "Dataset") /\ ret.res.err.name = ret.arg
    /\ (ret.op = "structure" /\ store[ret.arg].kind # "group")
          => Failed(ret, "Group") /\ ret.res.err.name = ret.arg

MissingNameWitness ==
    /\ ret.op = "structure" /\ store[ret.arg].kind = "dataset"
    /\ Failed(ret, "Group") /\ ret.res.err.name = "w"
    /\ memo # <<>> /\ memo[1].call.op = "array"
    /\ store[memo[1].call.arg].kind = "none"
    /\ Failed(memo[1].call, "Dataset") /\ memo[1].call.res.err.name = "x"

(* C2: File::structure on an existing group whose MATLAB_class is absent   *)
(* or is a string other than "struct" fails with Error::Struct, whatever   *)
(* MATLAB_fields holds.                                                    *)
ClassGuardYieldsStruct ==
    (/\ ret.op = "structure"
     /\ store[ret.arg].kind = "group"
     /\ store[ret.arg].class \in {Absent} \cup {Present(c) : c \in ClassNames \ {"struct"}})
        => Failed(ret, "Struct")

(* C3: converting a MatVar of shape [c, r] holding c*r elements yields a   *)
(* matrix of r rows and c columns whose element [i,j] is data[j*r + i].    *)
ColumnMajorReshape ==
    (/\ out.op = "matrix"
     /\ Len(out.call.res.val.shape) = 2
     /\ Len(out.call.res.val.data)
           = out.call.res.val.shape[1] * out.call.res.val.shape[2])
        => LET c == out.call.res.val.shape[1]
               r == out.call.res.val.shape[2]
               data == out.call.res.val.data
           IN  /\ ~out.result.panic
               /\ out.result.val.nrows = r
               /\ out.result.val.ncols = c
               /\ \A i \in 0..(r - 1), j \in 0..(c - 1) :
                     out.result.val.at[i, j] = data[(j * r + i) + 1]

ColumnMajorReshapeWitness ==
    /\ out.op = "matrix"
    /\ out.call.res.val.shape = <<2, 3>>
    /\ ~out.result.panic
    /\ out.result.val.at[1, 1] = 56
    /\ out.result.val.at[2, 0] = -2

(* C4: turning the MatVar of a successful File::array call into a Vec, by  *)
(* raw() or by From, yields exactly the element sequence of the dataset in *)
(* the store: same length, same elements, same order.                      *)
VecIsStoreData ==
    out.op \in {"raw", "vec"}
        => /\ ~out.result.panic
           /\ out.result.val = store[out.call.arg].data

VecIsStoreDataWitness ==
    /\ out.op = "vec"
    /\ out.result.val = <<0, -6, -2, 1, 56, 1>>
    /\ memo # <<>> /\ memo[1].call.op = "array" /\ memo[1].call.res.ok
    /\ Len(memo[1].call.res.val.data) >= 2

NonNul(x) == x # NUL

(* C6: on success field_names has as many entries as MATLAB_fields has     *)
(* elements and its k-th entry is the characters of the k-th element in    *)
(* their order (a NUL cell holds no character); nothing is reordered,      *)
(* deduplicated or case-normalized.                                        *)
FieldNamesFollowAttribute ==
    (ret.op = "structure" /\ ret.res.ok)
        => LET elems == store[ret.arg].fields.val
               names == ret.res.val.field_names
           IN  /\ Len(names) = Len(elems)
               /\ \A k \in 1..Len(elems) : names[k] = SelectSeq(elems[k], NonNul)

FieldNamesWitness ==
    /\ ret.op = "structure" /\ ret.res.ok
    /\ ret.res.val.field_names = <<<<"a", "A">>, <<"A">>>>
    /\ memo # <<>> /\ memo[1].call.op = "structure" /\ memo[1].between

(* C7: rendering an Error with Display or Debug never aborts, names the    *)
(* kind, and for Error::HDF5 includes the message of the wrapped error.    *)
RenderingCompletes ==
    out.op \in {"display", "debug"}
        => /\ ~out.result.panic
           /\ out.call.res.err.kind = "HDF5"
                 => \E i \in 1..Len(out.result.val) :
                       out.result.val[i] = out.call.res.err.e.msg

FieldNamesNonEmpty ==
    (ret.op = "structure" /\ ret.res.ok)
        => \A k \in 1..Len(ret.res.val.field_names) :
              ret.res.val.field_names[k] # <<>>

(* C9: File::structure validates no field name: on a group of class        *)
(* "struct" with a readable MATLAB_fields it succeeds, and its k-th field  *)
(* name is empty exactly when the k-th element holds no non-NUL character. *)
FieldNamesEmptyIffNoChars ==
    (/\ ret.op = "structure"
     /\ store[ret.arg].kind = "group"
     /\ store[ret.arg].class = Present("struct")
     /\ store[ret.arg].fields.st = "ok")
        => LET elems == store[ret.arg].fields.val
           IN  /\ ret.res.ok
               /\ Len(ret.res.val.field_names) = Len(elems)
               /\ \A k \in 1..Len(elems) :
                     (ret.res.val.field_names[k] = <<>>)
                        <=> (\A i \in 1..Len(elems[k]) : elems[k][i] = NUL)

FieldNamesEmptyWitness ==
    /\ ret.op = "structure" /\ ret.res.ok
    /\ Len(ret.res.val.field_names) = 2
    /\ ret.res.val.field_names[1] = <<>>
    /\ ret.res.val.field_names[2] # <<>>
    /\ store[ret.arg].fields.val[1] = <<NUL>>

(* C10: once the group is located, a failure to open or read MATLAB_class  *)
(* or MATLAB_fields comes back as Error::HDF5 holding the store's error    *)
(* unchanged, and MATLAB_fields is touched only after the class check has  *)
(* passed.                                                                 *)
AttributeFailurePropagates ==
    (ret.op = "structure" /\ store[ret.arg].kind = "group")
        => LET g == store[ret.arg]
               classOk == g.class = Present("struct")
           IN  /\ g.class.st = "absent"
                     => Failed(ret, "HDF5")
                           /\ ret.res.err.e = attr(g, "MATLAB_class").err
               /\ g.class.st = "bad"
                     => Failed(ret, "HDF5")
                           /\ ret.res.err.e = attr_read(attr(g, "MATLAB_class").val).err
               /\ (classOk /\ g.fields.st = "absent")
                     => Failed(ret, "HDF5")
                           /\ ret.res.err.e = attr(g, "MATLAB_fields").err
               /\ (classOk /\ g.fields.st = "bad")
                     => Failed(ret, "HDF5")
                           /\ ret.res.err.e = attr_read(attr(g, "MATLAB_fields").val).err
               /\ \A i \in 1..Len(ret.trace) :
                     ret.trace[i] \in {"attr MATLAB_fields", "read_raw"}
                        => classOk /\ \E j \in 1..(i - 1) : ret.trace[j] = "read_scalar"

AttributeFailureWitness ==
    /\ ret.op = "structure"
    /\ store[ret.arg].kind = "group"
    /\ store[ret.arg].class = Present("struct")
    /\ store[ret.arg].fields.st = "bad"
    /\ Failed(ret, "HDF5")
    /\ ret.trace = <<"group", "attr MATLAB_class", "read_scalar",
                     "attr MATLAB_fields", "read_raw">>

====
